---------------------------- MODULE Spec2Model ----------------------------
(***************************************************************************)
(* Authentication and token lifecycle of the FAST_API contact service:     *)
(* signup, login, refresh_token, confirmed_email, request_email and        *)
(* get_current_user, over the users table and the JWT codec (python-jose,  *)
(* HS256).                                                                 *)
(*                                                                         *)
(* A handler runs on the event loop and suspends only at its database      *)
(* round trips.  Each handler is therefore one step that decodes, reads    *)
(* and decides, followed -- when it writes -- by a second step, Commit,    *)
(* that flushes and commits.  Other requests may run between the two.      *)
(***************************************************************************)
EXTENDS Integers, FiniteSets, Sequences, TLC

(***************************************************************************)
(* Bounds of the model.                                                    *)
(***************************************************************************)
\* The clock advances in ticks; TicksPerSec ticks make one clock second.
MaxTick == 2
TicksPerSec == 2

Emails == {"a@x.com", "b@x.com"}
\* The emails that may be registered when the service starts.
Registered == {"a@x.com"}
\* Passwords chosen at signup, and passwords tried at login.
SignupPasswords == {"pw1"}
Passwords == {"pw1", "pw2"}
Salts == {"s1"}
\* Request slots: the requests that may be in flight together.
Req == {"r1", "r2"}

(***************************************************************************)
(* Program constants.                                                      *)
(***************************************************************************)
\* timedelta(minutes=15), timedelta(days=7), timedelta(days=1), in seconds.
AccessTTL == 900
RefreshTTL == 604800
EmailTTL == 86400

HTTP_200 == 200
HTTP_201 == 201
HTTP_400 == 400
HTTP_401 == 401
HTTP_409 == 409
HTTP_422 == 422
\* An exception no handler catches: the framework answers 500.
HTTP_500 == 500

SECRET_KEY == "SECRET_KEY_JWT"
OtherKey == "other key"

\* Python's None, and a key that a claims mapping does not hold.
None == [py |-> "None"]
Absent == "absent"

VARIABLES
    now,     \* the clock (datetime.utcnow()), in ticks
    users,   \* the users table: email -> row, or NoRow
    req,     \* per request slot: idle, or the handler suspended before its commit
    resp,    \* the response of the request the last step completed, or NoResp
    cleared, \* per user: "no", or how a refresh mismatch last cleared the stored
             \* token with no login since: "quiet", or "raced" when a rotation
             \* for that user was in flight at the clear
    issued   \* the access tokens that login and refresh have returned so far

vars == <<now, users, req, resp, cleared, issued>>

NoRow == None
NoResp == [op |-> "none", out |-> None, call |-> None]
Idle == [op |-> "idle"]

(***************************************************************************)
(* Token codec.  A token string is determined by its claims and its        *)
(* signing key (HS256 is deterministic); jose writes datetimes as whole    *)
(* seconds.                                                                *)
(***************************************************************************)
\* timegm(dt.utctimetuple()): a datetime truncated to whole seconds.
Sec(t) == t \div TicksPerSec

jwt_encode(claims, key) ==
    [sub |-> claims.sub, iat |-> claims.iat, exp |-> claims.exp,
     scope |-> claims.scope, sig |-> key]

create_access_token(data) ==
    jwt_encode([sub |-> data.sub, iat |-> Sec(now),
                exp |-> Sec(now) + AccessTTL, scope |-> "access_token"],
               SECRET_KEY)

create_refresh_token(data) ==
    jwt_encode([sub |-> data.sub, iat |-> Sec(now),
                exp |-> Sec(now) + RefreshTTL, scope |-> "refresh_token"],
               SECRET_KEY)

create_email_token(data) ==
    jwt_encode([sub |-> data.sub, iat |-> Sec(now),
                exp |-> Sec(now) + EmailTTL, scope |-> Absent],
               SECRET_KEY)

\* jwt.decode without the check of exp.
jwt_decode_noexp(token, key) ==
    IF token.sig # key
    THEN [ok |-> FALSE, err |-> "JWTError"]
    ELSE [ok |-> TRUE, payload |-> token]

\* jwt.decode: the signature first (JWTError), then exp against the clock in
\* seconds (ExpiredSignatureError, a subclass of JWTError).
jwt_decode(token, key) ==
    IF token.sig # key
    THEN [ok |-> FALSE, err |-> "JWTError"]
    ELSE IF token.exp < Sec(now)
    THEN [ok |-> FALSE, err |-> "ExpiredSignatureError"]
    ELSE [ok |-> TRUE, payload |-> token]

HasKey(payload, k) == payload[k] # Absent

\* raise HTTPException(status_code, detail).  "exc" is the exception the handler
\* met, which the client does not see: the client sees status and detail.
Raised(status, detail) ==
    [kind |-> "http", status |-> status, detail |-> detail, exc |-> "HTTPException"]
Unauthorized(detail) == Raised(HTTP_401, detail)
\* except JWTError: raise HTTPException(status_code, detail)
Caught(err, status, detail) ==
    [kind |-> "http", status |-> status, detail |-> detail, exc |-> err]
\* An exception no handler catches.
Uncaught(exc) ==
    [kind |-> "http", status |-> HTTP_500, detail |-> "Internal Server Error",
     exc |-> exc]

\* decode_refresh_token without the check of the scope.
decode_refresh_token_anyscope(token) ==
    LET d == jwt_decode(token, SECRET_KEY) IN
    IF ~d.ok
    THEN Caught(d.err, HTTP_401, "Could not validate credentials")
    ELSE IF ~HasKey(d.payload, "sub") THEN Uncaught("KeyError")
    ELSE [kind |-> "ok", email |-> d.payload.sub]

decode_refresh_token(token) ==
    LET d == jwt_decode(token, SECRET_KEY) IN
    IF ~d.ok
    THEN \* except JWTError
         Caught(d.err, HTTP_401, "Could not validate credentials")
    ELSE IF ~HasKey(d.payload, "scope") THEN Uncaught("KeyError")
    ELSE IF d.payload.scope = "refresh_token"
    THEN IF ~HasKey(d.payload, "sub") THEN Uncaught("KeyError")
         ELSE [kind |-> "ok", email |-> d.payload.sub]
    ELSE Unauthorized("Invalid scope for token")

get_email_from_token(token) ==
    LET d == jwt_decode(token, SECRET_KEY) IN
    IF ~d.ok
    THEN Caught(d.err, HTTP_422, "Invalid token for email verification")
    ELSE IF ~HasKey(d.payload, "sub") THEN Uncaught("KeyError")
    ELSE [kind |-> "ok", email |-> d.payload.sub]

(***************************************************************************)
(* Password hasher (bcrypt): the salt is kept in the hash.                 *)
(***************************************************************************)
Digest(password, salt) == <<"bcrypt", salt, password>>

get_password_hash(password, salt) ==
    [salt |-> salt, digest |-> Digest(password, salt)]

verify_password(plain_password, hashed_password) ==
    Digest(plain_password, hashed_password.salt) = hashed_password.digest

(***************************************************************************)
(* The users table and the User entity.                                    *)
(***************************************************************************)
\* The mapped columns of User that the handlers use.
UserColumns == {"email", "password", "refresh_token"}

NewUser(email, hashed) ==
    [email |-> email, password |-> hashed, refresh_token |-> None]

get_user_by_email(email) ==
    IF email \in DOMAIN users /\ users[email] # NoRow THEN users[email] ELSE None

\* getattr on a loaded User: only mapped columns are attributes of it, and User
\* maps no column "confirmed".
HasAttr(user, name) == user # None /\ name \in DOMAIN user

(***************************************************************************)
(* Auth.get_current_user: the gate of every protected endpoint.            *)
(***************************************************************************)
credentials_exception == Unauthorized("Could not validate credentials")

\* get_current_user that also rejects a user with no stored refresh token.
get_current_user_revoking(token) ==
    LET d == jwt_decode(token, SECRET_KEY) IN
    IF ~d.ok
    THEN [credentials_exception EXCEPT !.exc = d.err]
    ELSE IF ~HasKey(d.payload, "scope") THEN Uncaught("KeyError")
    ELSE IF d.payload.scope = "access_token"
    THEN IF ~HasKey(d.payload, "sub") THEN Uncaught("KeyError")
         ELSE IF get_user_by_email(d.payload.sub) = None
         THEN credentials_exception
         ELSE IF get_user_by_email(d.payload.sub).refresh_token = None
         THEN credentials_exception
         ELSE [kind |-> "ok", user |-> get_user_by_email(d.payload.sub)]
    ELSE credentials_exception

get_current_user(token) ==
    LET d == jwt_decode(token, SECRET_KEY) IN
    IF ~d.ok
    THEN \* except JWTError
         [credentials_exception EXCEPT !.exc = d.err]
    ELSE IF ~HasKey(d.payload, "scope") THEN Uncaught("KeyError")
    ELSE IF d.payload.scope = "access_token"
    THEN IF ~HasKey(d.payload, "sub") THEN Uncaught("KeyError")
         ELSE IF get_user_by_email(d.payload.sub) = None
         THEN credentials_exception
         ELSE [kind |-> "ok", user |-> get_user_by_email(d.payload.sub)]
    ELSE credentials_exception

(***************************************************************************)
(* What each route decides between its read and its commit: either the     *)
(* response at once, or the write it is about to commit with the response  *)
(* that follows it.                                                        *)
(***************************************************************************)
Respond(r) == [kind |-> "respond", resp |-> r]
Write(op, email, seen, value, r) ==
    [kind |-> "write", op |-> op, email |-> email, seen |-> seen,
     value |-> value, resp |-> r]

TokenPair(email) ==
    [access_token |-> create_access_token([sub |-> email]),
     refresh_token |-> create_refresh_token([sub |-> email]),
     token_type |-> "bearer"]

Ok(status, body) ==
    [kind |-> "http", status |-> status, detail |-> "", exc |-> "", body |-> body]

\* signup without the check for an existing account.
signup_nocheck(email, password, salt) ==
    LET new_user == NewUser(email, get_password_hash(password, salt)) IN
    Write("signup", email, None, new_user, Ok(HTTP_201, new_user))

\* routes/auth.py signup, up to create_user's commit.
signup(email, password, salt) ==
    IF get_user_by_email(email) # None
    THEN Respond(Raised(HTTP_409, "Account already exists"))
    ELSE LET new_user == NewUser(email, get_password_hash(password, salt)) IN
         Write("signup", email, None, new_user, Ok(HTTP_201, new_user))

\* routes/auth.py login, up to update_token's commit.  Reading an attribute
\* that User does not map raises AttributeError, which the route does not catch.
login(email, password) ==
    LET user == get_user_by_email(email) IN
    IF user = None THEN Respond(Unauthorized("Invalid email"))
    ELSE IF ~HasAttr(user, "confirmed") THEN Respond(Uncaught("AttributeError"))
    ELSE IF ~user.confirmed THEN Respond(Unauthorized("Email not confirmed"))
    ELSE IF ~verify_password(password, user.password)
    THEN Respond(Unauthorized("Invalid password"))
    ELSE LET pair == TokenPair(user.email) IN
         Write("login", email, user.refresh_token, pair.refresh_token,
               Ok(HTTP_200, pair))

\* refresh_token that, when decoding rejects a validly signed token, clears the
\* stored token of the user the token names.
refresh_token_clearing(token) ==
    LET d == decode_refresh_token(token) IN
    IF d.kind # "ok"
    THEN IF token.sig = SECRET_KEY /\ get_user_by_email(token.sub) # None
         THEN Write("refresh", token.sub, get_user_by_email(token.sub).refresh_token,
                    None, d)
         ELSE Respond(d)
    ELSE LET user == get_user_by_email(d.email) IN
         IF user = None THEN Respond(Uncaught("AttributeError"))
         ELSE IF user.refresh_token # token
         THEN Write("refresh", d.email, user.refresh_token, None,
                    Unauthorized("Invalid refresh token"))
         ELSE LET pair == TokenPair(d.email) IN
              Write("refresh", d.email, user.refresh_token, pair.refresh_token,
                    Ok(HTTP_200, pair))

\* refresh_token comparing only when a token is stored.
refresh_token_truthy(token) ==
    LET d == decode_refresh_token(token) IN
    IF d.kind # "ok" THEN Respond(d)
    ELSE LET user == get_user_by_email(d.email) IN
         IF user = None THEN Respond(Uncaught("AttributeError"))
         ELSE IF user.refresh_token # None /\ user.refresh_token # token
         THEN Write("refresh", d.email, user.refresh_token, None,
                    Unauthorized("Invalid refresh token"))
         ELSE LET pair == TokenPair(d.email) IN
              Write("refresh", d.email, user.refresh_token, pair.refresh_token,
                    Ok(HTTP_200, pair))

\* routes/auth.py refresh_token, up to update_token's commit.
refresh_token(token) ==
    LET d == decode_refresh_token(token) IN
    IF d.kind # "ok" THEN Respond(d)
    ELSE LET user == get_user_by_email(d.email) IN
         IF user = None THEN Respond(Uncaught("AttributeError"))
         ELSE IF user.refresh_token # token
         THEN Write("refresh", d.email, user.refresh_token, None,
                    Unauthorized("Invalid refresh token"))
         ELSE LET pair == TokenPair(d.email) IN
              Write("refresh", d.email, user.refresh_token, pair.refresh_token,
                    Ok(HTTP_200, pair))

\* routes/auth.py confirmed_email, up to repository confirmed_email's commit.
confirmed_email(token) ==
    LET d == get_email_from_token(token) IN
    IF d.kind # "ok" THEN Respond(d)
    ELSE LET user == get_user_by_email(d.email) IN
         IF user = None THEN Respond(Raised(HTTP_400, "Verification error"))
         ELSE IF ~HasAttr(user, "confirmed") THEN Respond(Uncaught("AttributeError"))
         ELSE IF user.confirmed
         THEN Respond(Ok(HTTP_200, "Your email is already confirmed"))
         ELSE Write("confirm", d.email, None, TRUE, Ok(HTTP_200, "Email confirmed"))

\* The response of request_email, with the background tasks it has scheduled.
Scheduled(out, tasks) ==
    [kind |-> out.kind, status |-> out.status, detail |-> out.detail,
     exc |-> out.exc, body |-> out.body, tasks |-> tasks]

\* routes/auth.py request_email: one read, no write.  `user.confirmed` is read
\* before `if user`: on None, and on a User (which maps no such column), it
\* raises AttributeError.
request_email(email) ==
    LET user == get_user_by_email(email) IN
    IF ~HasAttr(user, "confirmed") THEN Uncaught("AttributeError")
    ELSE IF user.confirmed
    THEN Scheduled(Ok(HTTP_200, "Your email is already confirmed"), {})
    ELSE IF user # None
    THEN Scheduled(Ok(HTTP_200, "Check your email for confirmation."),
                   {<<"send_email", user.email>>})
    ELSE Scheduled(Ok(HTTP_200, "Check your email for confirmation."), {})

(***************************************************************************)
(* repository/users.py: the writes.  Each assigns and commits; of two      *)
(* commits to the same row the later one stands.                           *)
(***************************************************************************)
\* update_token that stores only a token, never None.
update_token_skipnone(email, token) ==
    IF token # None
    THEN [users EXCEPT ![email] = [@ EXCEPT !.refresh_token = token]]
    ELSE users

\* update_token that assigns and never commits.
update_token_nocommit(email, token) == users

update_token(email, token) ==
    [users EXCEPT ![email] = [@ EXCEPT !.refresh_token = token]]

\* create_user: INSERT; users.email is unique.
create_user(email, new_user) ==
    IF users[email] # NoRow
    THEN [ok |-> FALSE, users |-> users]
    ELSE [ok |-> TRUE, users |-> [users EXCEPT ![email] = new_user]]

\* repository confirmed_email: User maps no column "confirmed", so the
\* attribute set on the loaded entity is not flushed.
repo_confirmed_email(email) ==
    IF "confirmed" \in UserColumns
    THEN [users EXCEPT ![email] =
            [f \in DOMAIN @ \cup {"confirmed"} |->
                IF f = "confirmed" THEN TRUE ELSE @[f]]]
    ELSE users

(***************************************************************************)
(* The tokens a client may present: every claim set the issuing paths      *)
(* write, issued long ago (expired), just before the run, or during it,    *)
(* with or without "sub", under the service's key or another one.          *)
(***************************************************************************)
LongAgo == 0 - RefreshTTL - 1
JustBefore == 0 - 1
IssueSecs == {LongAgo, JustBefore} \cup (0 .. Sec(MaxTick))
Scopes == {"access_token", "refresh_token", Absent}

TTL(scope) ==
    CASE scope = "access_token" -> AccessTTL
      [] scope = "refresh_token" -> RefreshTTL
      [] OTHER -> EmailTTL

Token(s, i, sc, k) ==
    jwt_encode([sub |-> s, iat |-> i, exp |-> i + TTL(sc), scope |-> sc], k)

Tokens ==
    { Token(s, i, sc, SECRET_KEY) :
        s \in Emails, i \in IssueSecs, sc \in {"access_token", "refresh_token"} }
    \cup { Token(s, i, Absent, SECRET_KEY) : s \in Emails, i \in {LongAgo, JustBefore} }
    \cup { Token(Absent, JustBefore, sc, SECRET_KEY) : sc \in Scopes }
    \cup { Token(s, JustBefore, sc, OtherKey) :
             s \in Emails, sc \in {"access_token", "refresh_token"} }

\* The rows the database may hold when the service starts.  The users table
\* is not created by the service and outlives it: a row holds a password hash
\* and, as refresh_token, None or a refresh token of that user, expired or not.
PersistedRows(e) ==
    { [email |-> e, password |-> get_password_hash(p, s), refresh_token |-> t] :
        p \in SignupPasswords, s \in Salts,
        t \in {None}
               \cup { jwt_encode([sub |-> e, iat |-> i, exp |-> i + RefreshTTL,
                                  scope |-> "refresh_token"], SECRET_KEY) :
                        i \in {LongAgo, JustBefore} } }

(***************************************************************************)
(* State machine.                                                          *)
(***************************************************************************)
Init ==
    /\ now = 0
    /\ users \in { u \in [Emails -> UNION { PersistedRows(e) : e \in Registered }
                                   \cup {NoRow}] :
                     \A e \in Emails :
                        u[e] = NoRow \/ (e \in Registered /\ u[e] \in PersistedRows(e)) }
    /\ req = [r \in Req |-> Idle]
    /\ resp = NoResp
    /\ cleared = [e \in Emails |-> "no"]
    /\ issued = {}

\* The response, with the suspended call it completes (None: the handler never
\* suspended).
Reply(op, out, call) == [op |-> op, out |-> out, call |-> call]

\* Slots are interchangeable: a request takes r2 only while r1 is taken.
Free(r) == req[r] = Idle /\ (r = "r2" => req["r1"] # Idle)

\* What a suspended call read and is about to write.
Core(p) == [op |-> p.op, email |-> p.email, seen |-> p.seen, value |-> p.value]

\* A handler runs from its start to its first commit, where it suspends, or to
\* its response.  A suspended call records as "rival" the last call that was
\* suspended together with it (None: it has run alone so far).
Decide(r, op, dec) ==
    IF dec.kind = "respond"
    THEN /\ req' = req
         /\ resp' = Reply(op, dec.resp, None)
    ELSE /\ req' = [q \in Req |->
                      IF q = r
                      THEN [op |-> dec.op, email |-> dec.email, seen |-> dec.seen,
                            value |-> dec.value, resp |-> dec.resp,
                            rival |-> IF \E o \in Req \ {r} : req[o] # Idle
                                      THEN Core(req[CHOOSE o \in Req \ {r} :
                                                      req[o] # Idle])
                                      ELSE None]
                      ELSE IF req[q] = Idle THEN Idle
                      ELSE [req[q] EXCEPT !.rival = Core(dec)]]
         /\ resp' = NoResp

Signup(r, email, password, salt) ==
    /\ Free(r)
    /\ Decide(r, "signup", signup(email, password, salt))
    /\ UNCHANGED <<now, users, cleared, issued>>

Login(r, email, password) ==
    /\ Free(r)
    /\ Decide(r, "login", login(email, password))
    /\ UNCHANGED <<now, users, cleared, issued>>

Refresh(r, token) ==
    /\ Free(r)
    /\ Decide(r, "refresh", refresh_token(token))
    /\ UNCHANGED <<now, users, cleared, issued>>

ConfirmedEmail(r, token) ==
    /\ Free(r)
    /\ Decide(r, "confirm", confirmed_email(token))
    /\ UNCHANGED <<now, users, cleared, issued>>

\* Another request than r holds a token it is about to store for this user.
RotationInFlight(r, email) ==
    \E q \in Req \ {r} :
        /\ req[q] # Idle
        /\ req[q].op \in {"login", "refresh"}
        /\ req[q].email = email
        /\ req[q].value # None

\* db.commit() of the suspended handler, and its response.
Commit(r) ==
    /\ req[r] # Idle
    /\ LET p == req[r] IN
       CASE p.op = "signup" ->
              LET c == create_user(p.email, p.value) IN
              /\ users' = c.users
              /\ resp' = Reply(p.op,
                               IF c.ok THEN p.resp ELSE Uncaught("IntegrityError"),
                               p)
              /\ UNCHANGED <<cleared, issued>>
         [] p.op \in {"login", "refresh"} ->
              /\ users' = update_token(p.email, p.value)
              /\ resp' = Reply(p.op, p.resp, p)
              /\ cleared' =
                   IF p.op = "login" THEN [cleared EXCEPT ![p.email] = "no"]
                   ELSE IF p.value = None
                   THEN [cleared EXCEPT ![p.email] =
                           IF RotationInFlight(r, p.email) THEN "raced" ELSE "quiet"]
                   ELSE cleared
              /\ issued' = IF p.value # None
                            THEN issued \cup {p.resp.body.access_token}
                            ELSE issued
         [] OTHER ->
              /\ users' = repo_confirmed_email(p.email)
              /\ resp' = Reply(p.op, p.resp, p)
              /\ UNCHANGED <<cleared, issued>>
    /\ req' = [req EXCEPT ![r] = Idle]
    /\ now' = now

\* A protected endpoint resolving its caller: one read, no write.
CurrentUser(token) ==
    /\ resp' = Reply("current_user", get_current_user(token), None)
    /\ UNCHANGED <<now, users, req, cleared, issued>>

RequestEmail(email) ==
    /\ resp' = Reply("request_email", request_email(email), None)
    /\ UNCHANGED <<now, users, req, cleared, issued>>

Tick ==
    /\ now < MaxTick
    /\ now' = now + 1
    /\ resp' = NoResp
    /\ UNCHANGED <<users, req, cleared, issued>>

Next ==
    \/ Tick
    \/ \E r \in Req, e \in Emails, p \in SignupPasswords, s \in Salts : Signup(r, e, p, s)
    \/ \E r \in Req, e \in Emails, p \in Passwords : Login(r, e, p)
    \/ \E r \in Req, t \in Tokens : Refresh(r, t)
    \/ \E r \in Req, t \in Tokens : ConfirmedEmail(r, t)
    \/ \E r \in Req : Commit(r)
    \/ \E t \in Tokens : CurrentUser(t)
    \/ \E e \in Emails : RequestEmail(e)

Spec == Init /\ [][Next]_vars

(***************************************************************************)
(* Properties.                                                             *)
(***************************************************************************)
Valid(t) == t.sig = SECRET_KEY
Expired(t) == t.exp < Sec(now)
Exists(e) == e \in Emails /\ users[e] # NoRow
Stored(e) == users[e].refresh_token

\* What the client sees of a response.
ClientView(out) == <<out.status, out.detail>>
Forged(t) == [t EXCEPT !.sig = OtherKey]

\* A refresh call presenting t in this state would return a token pair.
WouldSucceed(t) ==
    LET d == refresh_token(t) IN d.kind = "write" /\ d.resp.status = HTTP_200

Live(e) == { t \in Tokens : t.sub = e /\ WouldSucceed(t) }

RefreshDone == resp.op = "refresh" /\ resp.call # None
MismatchDone == RefreshDone /\ resp.call.value = None
RotationDone == RefreshDone /\ resp.call.value # None

\* C1: a refresh presenting a validly signed, unexpired refresh-scoped token that
\* differs from the stored token of its (existing) subject decides to store None
\* and to answer 401 "Invalid refresh token" without tokens; and right after that
\* call commits, the stored token is None and that is the response.
C1_MismatchClears ==
    /\ \A t \in Tokens :
          (/\ Valid(t) /\ ~Expired(t) /\ t.scope = "refresh_token"
           /\ Exists(t.sub) /\ Stored(t.sub) # t)
          => LET d == refresh_token(t) IN
             /\ d.kind = "write" /\ d.email = t.sub /\ d.value = None
             /\ ClientView(d.resp) = <<HTTP_401, "Invalid refresh token">>
             /\ "body" \notin DOMAIN d.resp
    /\ MismatchDone
          => /\ Stored(resp.call.email) = None
             /\ ClientView(resp.out) = <<HTTP_401, "Invalid refresh token">>
             /\ "body" \notin DOMAIN resp.out

C1_Witness ==
    /\ MismatchDone
    /\ resp.call.seen # None
    /\ Stored(resp.call.email) = None

\* C2: right after a successful refresh, the token that was presented to it
\* (the one the call read as stored) is rejected by a refresh call.
C2_RotationInvalidates ==
    (RotationDone /\ resp.out.status = HTTP_200) => ~WouldSucceed(resp.call.seen)

\* C3 as claimed: once a mismatch has cleared a user's stored token and no login
\* has followed, no refresh for that user succeeds, in every interleaving.
C3_ClearedStaysDead ==
    \A e \in Emails :
        cleared[e] # "no" => \A t \in Tokens : t.sub = e => ~WouldSucceed(t)

\* C3 as amended: the same, when no rotation for that user was in flight at the
\* moment the mismatch cleared the token.
C3_QuietClearedStaysDead ==
    \A e \in Emails :
        cleared[e] = "quiet" => \A t \in Tokens : t.sub = e => ~WouldSucceed(t)

C3_Witness ==
    /\ MismatchDone
    /\ resp.call.seen = None
    /\ cleared[resp.call.email] = "quiet"

\* C4: in every state every user has at most one live refresh token.
C4_AtMostOneLive == \A e \in Emails : Cardinality(Live(e)) <= 1

C4_Witness ==
    /\ RotationDone /\ resp.out.status = HTTP_200
    /\ resp.call.seen # resp.out.body.refresh_token
    /\ Live(resp.call.email) = {resp.out.body.refresh_token}

Confirmed(user) == HasAttr(user, "confirmed") /\ user.confirmed

\* C5: for an existing user whose confirmation flag is unset, login answers 401
\* "Email not confirmed" whatever the password, and writes nothing (stated of
\* the states a login has just answered in).
C5_UnconfirmedLogin ==
    resp.op = "login" =>
    \A e \in Emails, p \in Passwords :
        (Exists(e) /\ ~Confirmed(users[e]))
        => login(e, p) = Respond(Unauthorized("Email not confirmed"))

\* C6: login returns a bearer token pair exactly when the user exists, is
\* confirmed and the password verifies; otherwise it answers 401 with "Invalid
\* email", else "Email not confirmed", else "Invalid password" (stated of the
\* states a login has just answered in).
C6_LoginOutcome ==
    resp.op = "login" =>
    \A e \in Emails, p \in Passwords :
        LET user == get_user_by_email(e)
            d == login(e, p)
        IN  IF user # None /\ Confirmed(user) /\ verify_password(p, user.password)
            THEN /\ d.kind = "write" /\ d.resp.status = HTTP_200
                 /\ d.resp.body.token_type = "bearer"
                 /\ d.resp.body.access_token.scope = "access_token"
                 /\ d.resp.body.refresh_token.scope = "refresh_token"
            ELSE d = Respond(Unauthorized(
                        IF user = None THEN "Invalid email"
                        ELSE IF ~Confirmed(user) THEN "Email not confirmed"
                        ELSE "Invalid password"))

\* C7: right after a successful login or refresh commits, the stored refresh
\* token is the refresh token the call returns, whatever the call had read.
C7_StoredIsReturned ==
    (/\ resp.op \in {"login", "refresh"} /\ resp.call # None
     /\ resp.out.status = HTTP_200)
    => Stored(resp.call.email) = resp.out.body.refresh_token

C7_Witness ==
    /\ RotationDone /\ resp.out.status = HTTP_200
    /\ resp.call.seen # resp.out.body.refresh_token
    /\ Stored(resp.call.email) = resp.out.body.refresh_token

\* C8: a validly signed, unexpired access-scoped token never makes refresh
\* succeed, and a validly signed, unexpired refresh-scoped token never resolves a
\* current user: each is answered 401 at once, with no write.
C8_ScopeSeparation ==
    \A t \in Tokens :
        (Valid(t) /\ ~Expired(t))
        => /\ t.scope = "access_token"
              => LET d == refresh_token(t) IN
                 d.kind = "respond" /\ d.resp.status = HTTP_401
           /\ t.scope = "refresh_token"
              => LET g == get_current_user(t) IN
                 g.kind = "http" /\ g.status = HTTP_401

C8_Witness ==
    /\ resp.op = "refresh" /\ resp.call = None
    /\ resp.out.detail = "Invalid scope for token"
    /\ \E e \in Emails : Exists(e) /\ Stored(e) # None

\* C9: current-user resolution returns the user when the token is validly
\* signed, unexpired, access-scoped, carries a sub and a user with that email
\* exists; for every other token carrying a scope it answers 401 "Could not
\* validate credentials" (stated of the states a resolution has just answered
\* in).
C9_CurrentUser ==
    resp.op = "current_user" =>
    \A t \in Tokens :
        t.scope # Absent =>
        LET g == get_current_user(t) IN
        IF /\ Valid(t) /\ ~Expired(t) /\ t.scope = "access_token"
           /\ t.sub # Absent /\ Exists(t.sub)
        THEN g.kind = "ok" /\ g.user = users[t.sub]
        ELSE /\ g.kind = "http"
             /\ ClientView(g) = <<HTTP_401, "Could not validate credentials">>

RejectedExpired(t) ==
    /\ jwt_decode(t, SECRET_KEY) = [ok |-> FALSE, err |-> "ExpiredSignatureError"]
    /\ refresh_token(t).kind = "respond"
    /\ refresh_token(t).resp.status = HTTP_401
    /\ get_current_user(t).kind = "http"
    /\ get_current_user(t).status = HTTP_401

\* C10 as claimed: a validly signed token whose exp is past is rejected by refresh
\* and by current-user resolution, with a failure the client can tell from the
\* one for an invalid signature (stated of the states in which a refresh has
\* just been rejected for expiry).
C10_ExpiryDistinguishable ==
    (resp.op = "refresh" /\ resp.call = None /\ resp.out.exc = "ExpiredSignatureError") =>
    \A t \in Tokens :
        (Valid(t) /\ Expired(t))
        => /\ RejectedExpired(t)
           /\ ClientView(refresh_token(t).resp)
                # ClientView(refresh_token(Forged(t)).resp)
           /\ ClientView(get_current_user(t)) # ClientView(get_current_user(Forged(t)))

\* C10 as amended: such a token is rejected by both, the decoder raising its
\* expiry error, and the client gets 401 "Could not validate credentials", the
\* same response as for an invalid signature.
C10_ExpiredRejected ==
    \A t \in Tokens :
        (Valid(t) /\ Expired(t))
        => /\ RejectedExpired(t)
           /\ ClientView(refresh_token(t).resp)
                = <<HTTP_401, "Could not validate credentials">>
           /\ ClientView(get_current_user(t))
                = <<HTTP_401, "Could not validate credentials">>
           /\ ClientView(refresh_token(t).resp)
                = ClientView(refresh_token(Forged(t)).resp)
           /\ ClientView(get_current_user(t)) = ClientView(get_current_user(Forged(t)))

C10_Witness ==
    /\ resp.op = "refresh" /\ resp.call = None
    /\ resp.out.status = HTTP_401
    /\ resp.out.exc = "ExpiredSignatureError"

\* The access tokens as create_access_token writes them, under the service's key.
AccessTokens ==
    { t \in Tokens : Valid(t) /\ t.scope = "access_token" /\ t.sub # Absent }

\* C11: every access token that login or refresh has returned, and every token
\* of that form, resolves its user in every state in which it is unexpired and
\* its user exists, whatever has since been stored as, or cleared from, that
\* user's refresh token.
C11_NoRevocation ==
    \A t \in issued \cup AccessTokens :
        (~Expired(t) /\ Exists(t.sub))
        => get_current_user(t) = [kind |-> "ok", user |-> users[t.sub]]

\* An access token returned by a refresh still resolves its user after a
\* mismatch has cleared that user's stored refresh token.
C11_Witness ==
    \E t \in issued :
        /\ cleared[t.sub] # "no"
        /\ Stored(t.sub) = None
        /\ get_current_user(t).kind = "ok"

\* C12: signup with an email that has a row answers 409 "Account already
\* exists" at once, with no write; and a signup that ran with no other call
\* suspended beside it inserts its row where none was (usernames are taken to
\* differ), so that signups one after another leave one row per email.
C12_SignupConflict ==
    /\ \A e \in Emails, p \in SignupPasswords, s \in Salts :
          Exists(e)
          => signup(e, p, s) = Respond(Raised(HTTP_409, "Account already exists"))
    /\ (resp.op = "signup" /\ resp.call = None)
          => ClientView(resp.out) = <<HTTP_409, "Account already exists">>
    /\ (resp.op = "signup" /\ resp.call # None /\ resp.call.rival = None)
          => /\ resp.out.status = HTTP_201
             /\ users[resp.call.email] = resp.call.value

\* A second signup with an email registered by a signup of this run.
C12_Witness ==
    /\ resp.op = "signup" /\ resp.call = None
    /\ resp.out.status = HTTP_409
    /\ users["a@x.com"] = NoRow
    /\ Exists("b@x.com")

\* The tokens as create_email_token writes them: sub, iat and exp, no scope.
EmailTokens ==
    { t \in Tokens : Valid(t) /\ t.scope = Absent /\ t.sub # Absent }

\* C13: for an existing user, consuming an unexpired verification token sets
\* the confirmed flag and answers "Email confirmed" when the flag is unset, and
\* answers "Your email is already confirmed" with no write when it is set; right
\* after a confirmation commits the flag is set (stated of the states in which
\* a confirmation has just answered past its decoding and its lookup).
C13_ConfirmIdempotent ==
    (resp.op = "confirm" /\ (resp.call # None \/ resp.out.exc = "AttributeError"))
    => /\ \A t \in EmailTokens :
             (~Expired(t) /\ Exists(t.sub))
             => LET d == confirmed_email(t) IN
                IF Confirmed(users[t.sub])
                THEN d = Respond(Ok(HTTP_200, "Your email is already confirmed"))
                ELSE /\ d.kind = "write" /\ d.email = t.sub /\ d.value = TRUE
                     /\ d.resp = Ok(HTTP_200, "Email confirmed")
       /\ resp.call # None => Confirmed(users[resp.call.email])

\* C14: an unexpired verification token presented to refresh or to current-user
\* resolution is answered 401 by the handler, not by an exception nobody
\* catches (stated of the states in which a refresh has just met a KeyError).
C14_EmailTokenUnauthorized ==
    (resp.op = "refresh" /\ resp.out.exc = "KeyError")
    => \A t \in EmailTokens :
          ~Expired(t)
          => /\ refresh_token(t).kind = "respond"
             /\ refresh_token(t).resp.status = HTTP_401
             /\ refresh_token(t).resp.exc = "HTTPException"
             /\ get_current_user(t).kind = "http"
             /\ get_current_user(t).status = HTTP_401
             /\ get_current_user(t).exc = "HTTPException"

\* The suspended call p is a rotation that read the stored token while another
\* rotation for the same user, which had read the same stored token, was
\* suspended: each read before either wrote, and both passed the comparison.
Raced(p) ==
    /\ p.op = "refresh" /\ p.value # None /\ p.seen # None
    /\ p.rival # None
    /\ p.rival.op = "refresh" /\ p.rival.email = p.email
    /\ p.rival.seen = p.seen /\ p.rival.value # None

\* C15: a rotation that raced with another one for the same stored token
\* returns its token pair all the same, and right after its commit the stored
\* token is the one it wrote: of the two, the call that commits last decides
\* what is stored, and only that token is then accepted.
C15_RaceBothSucceed ==
    (RefreshDone /\ Raced(resp.call))
    => /\ resp.out.status = HTTP_200
       /\ resp.out.body.refresh_token = resp.call.value
       /\ Stored(resp.call.email) = resp.call.value
       /\ WouldSucceed(resp.call.value)
       /\ resp.call.rival.value # resp.call.value
             => ~WouldSucceed(resp.call.rival.value)

\* Both rotations of a race have committed, each having returned its own pair;
\* the two issued tokens differ and the stored one is the later commit's.
C15_Witness ==
    /\ RefreshDone /\ Raced(resp.call)
    /\ \A r \in Req : req[r] = Idle
    /\ resp.out.status = HTTP_200
    /\ resp.call.rival.value # resp.call.value
    /\ Stored(resp.call.email) = resp.call.value

\* A login or a refresh has just returned a token pair.
PairReturned ==
    /\ resp.op \in {"login", "refresh"} /\ resp.call # None
    /\ resp.out.status = HTTP_200

FailsWithoutWrite(d) ==
    (d.kind = "write" /\ d.resp.status >= HTTP_400)
    => (d.op = "refresh" /\ d.value = None)

\* The step ends an auth call in a failure that is not a refresh mismatch.
FailedNotMismatch ==
    /\ resp'.op \in {"signup", "login", "refresh", "confirm"}
    /\ resp'.out.status >= HTTP_400
    /\ ~(resp'.op = "refresh" /\ resp'.call # None)

\* C18: every login, signup and confirmation that fails, and every refresh
\* rejected at decoding -- also one presenting the very token that is stored --
\* decides no write; and every step that ends an auth call in a failure other
\* than the refresh mismatch leaves the users table as it was.
C18_FailureFrame ==
    /\ [](/\ \A e \in Emails, p \in Passwords : FailsWithoutWrite(login(e, p))
          /\ \A e \in Emails, p \in SignupPasswords, s \in Salts :
                FailsWithoutWrite(signup(e, p, s))
          /\ \A t \in Tokens :
                /\ FailsWithoutWrite(confirmed_email(t))
                /\ FailsWithoutWrite(refresh_token(t))
                /\ decode_refresh_token(t).kind # "ok"
                      => refresh_token(t).kind = "respond"
          /\ \A e \in Emails :
                (/\ Exists(e) /\ Stored(e) # None
                 /\ ~jwt_decode(Stored(e), SECRET_KEY).ok)
                => refresh_token(Stored(e)).kind = "respond")
    /\ [][FailedNotMismatch => users' = users]_vars

\* A refresh has just been rejected as expired while a user's stored token is
\* an expired one, and that token is still stored.
C18_Witness ==
    /\ resp.op = "refresh" /\ resp.call = None
    /\ resp.out.exc = "ExpiredSignatureError"
    /\ \E e \in Emails : Exists(e) /\ Stored(e) # None /\ Expired(Stored(e))

\* C19: request_email schedules the confirmation email exactly when a user with
\* that email exists and is not confirmed; for a confirmed user it answers "Your
\* email is already confirmed", for an unknown email "Check your email for
\* confirmation.", scheduling nothing and raising nothing (stated of the states
\* a request_email has just answered in).
C19_RequestEmail ==
    resp.op = "request_email" =>
    \A e \in Emails :
        LET user == get_user_by_email(e)
            out == request_email(e)
        IN  IF user = None
            THEN out = Scheduled(Ok(HTTP_200, "Check your email for confirmation."),
                                 {})
            ELSE IF Confirmed(user)
            THEN out = Scheduled(Ok(HTTP_200, "Your email is already confirmed"), {})
            ELSE out = Scheduled(Ok(HTTP_200, "Check your email for confirmation."),
                                 {<<"send_email", e>>})

=============================================================================
